---- MODULE Spec2Model ----
(***************************************************************************)
(* Ridelytics: the recommendations endpoint of the backend                 *)
(* (GET /api/ads/recommendations, app.ts), its chat endpoint (POST         *)
(* /api/chat, chatbot/chatHandler.ts) and the location tracking of the     *)
(* front-end page (app/page.tsx with the useUserLocation hook).  app.ts is *)
(* the file src/unnamed/part_001; utils/distance.ts and data/ads.json are  *)
(* not part of the sources at hand and are modelled from the               *)
(* specification.                                                          *)
(*                                                                         *)
(* Numbers.  A coordinate is an integer number of ticks, one tick being    *)
(* 10^-6 degree.  A raw (unrounded) distance is an integer number of       *)
(* decimeters, so that Math.round has something to round.  Distances in    *)
(* responses and radii are whole meters, as in the program.  A route       *)
(* duration is in tenths of a second before Math.round.                    *)
(***************************************************************************)
EXTENDS Integers, Sequences, FiniteSets, TLC

\* ------------------------------------------------------------------ bounds

\* The largest catalog (ads.json) the model reads.
MaxAds == 2
\* The largest catalog of the chat specification: one record more than the
\* nearby-business set holds.
MaxChatAds == 6
\* How often the model lets the user start location tracking.
MaxStarts == 2

\* ------------------------------------------------------- program constants

\* app.ts:72  userLat < -90 || userLat > 90
MaxLatitude == 90
\* app.ts:72  userLng < -180 || userLng > 180
MaxLongitude == 180
\* chatHandler.ts:37  maxDistance: number = 20000 (meters)
maxDistance == 20000
\* chatHandler.ts:51  .slice(0, 5)
TopN == 5

TicksPerDegree == 10 ^ 6
DmPerMeter == 2 * 5

\* --------------------------------------------------------- JS number helpers

Abs(x) == IF x < 0 THEN -x ELSE x

\* Math.round on a value given in tenths: the nearest integer, a half
\* rounding towards +Infinity (Math.round(4.5) = 5, Math.round(-4.5) = -4).
MathRound(tenths) == (tenths + 5) \div 10

\* The JS values the model needs: a number, NaN, null, undefined and a string
\* that is no numeral.
Num(v) == [t |-> "num", v |-> v]
NaN == [t |-> "nan", v |-> 0]
Null == [t |-> "null", v |-> 0]
Undefined == [t |-> "undefined", v |-> 0]
Str == [t |-> "string", v |-> 0]
isNaN(x) == x.t = "nan"

\* ------------------------------------------------------------ parseFloat
\* A query-string value is a sequence of characters; <<>> stands for an
\* absent or empty parameter (both falsy in `!latitude`).

Digits == {"0", "1", "2", "3", "4", "5", "6", "7", "8", "9"}
WhiteSpace == {" "}

DigitVal(c) ==
    CASE c = "0" -> 0 [] c = "1" -> 1 [] c = "2" -> 2 [] c = "3" -> 3
      [] c = "4" -> 4 [] c = "5" -> 5 [] c = "6" -> 6 [] c = "7" -> 7
      [] c = "8" -> 8 [] c = "9" -> 9

\* The first index >= i of s that holds no character of set cs (Len(s)+1 if none).
RECURSIVE SkipWhile(_, _, _)
SkipWhile(s, i, cs) ==
    IF i <= Len(s) /\ s[i] \in cs THEN SkipWhile(s, i + 1, cs) ELSE i

\* The integer written by the digits s[i..j-1].
RECURSIVE IntOf(_, _, _)
IntOf(s, i, j) ==
    IF j <= i THEN 0 ELSE IntOf(s, i, j - 1) * 10 + DigitVal(s[j - 1])

\* The fraction written by the digits s[i..j-1] after the point, in ticks of
\* `unit` (unit = TicksPerDegree for the first digit's tenfold); digits finer
\* than a tick are dropped.
RECURSIVE FracOf(_, _, _, _)
FracOf(s, i, j, unit) ==
    IF j <= i \/ unit < 10 THEN 0
    ELSE DigitVal(s[i]) * (unit \div 10) + FracOf(s, i + 1, j, unit \div 10)

\* parseFloat(string): leading white space is skipped, then the longest prefix
\* that is a decimal literal ([+-] digits [. digits], at least one digit) is
\* converted and whatever follows is ignored; NaN when there is no such prefix.
parseFloat(s) ==
    LET b  == SkipWhile(s, 1, WhiteSpace)
        sg == IF b <= Len(s) /\ s[b] \in {"-", "+"} THEN b + 1 ELSE b
        ie == SkipWhile(s, sg, Digits)
        fs == IF ie <= Len(s) /\ s[ie] = "." THEN ie + 1 ELSE ie
        fe == IF fs > ie THEN SkipWhile(s, fs, Digits) ELSE ie
        n  == (ie - sg) + (fe - fs)
        v  == IntOf(s, sg, ie) * TicksPerDegree + FracOf(s, fs, fe, TicksPerDegree)
    IN  IF n = 0 THEN NaN
        ELSE Num(IF sg > b /\ s[b] = "-" THEN -v ELSE v)


\* ------------------------------------------------------ calculateDistance
\* utils/distance.ts: the haversine great-circle distance with Earth mean
\* radius 6,371,000 m.  One tick of arc is 0.1112 m, that is 1112 dm for a
\* thousand ticks.  Along one meridian the great-circle arc is the latitude
\* difference; between a meridian and its antipodal meridian it is the arc over
\* the nearer pole.  The model places every point on longitude 0 or 180.
\* The formula takes sines and cosines of its arguments, so an angle outside
\* the coordinate range counts modulo a full turn, and the arc between two
\* points never exceeds half a turn.
DmPerKiloTick == 1112
FullTurn == 360 * TicksPerDegree

Fold(ticks) ==
    LET m == ticks % FullTurn
    IN  IF m > FullTurn \div 2 THEN FullTurn - m ELSE m

ArcDm(ticks) ==
    (ticks \div 1000) * DmPerKiloTick + ((ticks % 1000) * DmPerKiloTick) \div 1000

\* The raw distance in decimeters; symmetric, 0 on identical points.
calculateDistance(lat1, lng1, lat2, lng2) ==
    CASE (lng1 - lng2) % FullTurn = 0 -> ArcDm(Fold(lat1 - lat2))
      [] (lng1 - lng2) % FullTurn = FullTurn \div 2 ->
            LET over == Fold(FullTurn \div 2 - (lat1 + lat2))
            IN  ArcDm(over)

\* ---------------------------------------------------------------- catalog
\* ads.json: a sequence of Ad records (app.ts:18-28).  businessName, imageUrl
\* and websiteUrl are carried along with id unchanged and are left out.
Ids == <<"a", "b", "c", "d", "e", "f", "g", "h">>
\* Two sites on longitude 0, 78 ticks (8.7 m) apart: <<latitude, radius>>.
Sites == { <<0, 4>>, <<78, 5>> }
Priorities == {1, 2}

AdAt(i) ==
    { [id |-> Ids[i], latitude |-> st[1], longitude |-> 0, radius |-> st[2],
       active |-> ac, priority |-> pr] :
         st \in Sites, ac \in BOOLEAN, pr \in Priorities }

RECURSIVE CatalogsOfLen(_)
CatalogsOfLen(n) ==
    IF n = 0 THEN { <<>> }
    ELSE { Append(c, a) : c \in CatalogsOfLen(n - 1), a \in AdAt(n) }

Catalogs == UNION { CatalogsOfLen(n) : n \in 0..MaxAds }

\* The catalogs of the ranking specification: active records at the same two
\* places, each with a radius of 5 m, so that a user between them is within
\* the radius of both.
RankAdAt(i) ==
    { [id |-> Ids[i], latitude |-> lat, longitude |-> 0, radius |-> 5,
       active |-> TRUE, priority |-> pr] :
         lat \in { st[1] : st \in Sites }, pr \in Priorities }

RECURSIVE RankCatalogsOfLen(_)
RankCatalogsOfLen(n) ==
    IF n = 0 THEN { <<>> }
    ELSE { Append(c, a) : c \in RankCatalogsOfLen(n - 1), a \in RankAdAt(n) }

RankCatalogs == UNION { RankCatalogsOfLen(n) : n \in 0..MaxAds }

\* The catalogs of the chat specification.  Four kinds of record on
\* longitude 0: at latitude 0; 8.7 m north of it, with a radius of 1 m and
\* the more urgent priority; an inactive one; and one a degree (111 km) north
\* whose radius of 200 km spans all the others.
ChatKinds ==
    { [latitude |-> 0, radius |-> 4, active |-> TRUE, priority |-> 2],
      [latitude |-> 78, radius |-> 1, active |-> TRUE, priority |-> 1],
      [latitude |-> 0, radius |-> 4, active |-> FALSE, priority |-> 1],
      [latitude |-> TicksPerDegree, radius |-> 200000, active |-> TRUE,
       priority |-> 1] }

ChatAdAt(i) ==
    { [id |-> Ids[i], latitude |-> k.latitude, longitude |-> 0,
       radius |-> k.radius, active |-> k.active, priority |-> k.priority] :
         k \in ChatKinds }

RECURSIVE ChatCatalogsOfLen(_)
ChatCatalogsOfLen(n) ==
    IF n = 0 THEN { <<>> }
    ELSE { Append(c, a) : c \in ChatCatalogsOfLen(n - 1), a \in ChatAdAt(n) }

ChatCatalogs == UNION { ChatCatalogsOfLen(n) : n \in 0..MaxChatAds }

\* ------------------------------------------------------------ matchingAds
\* app.ts:83  .filter(ad => ad.active)
isActiveMutant(ad) == TRUE
isActive(ad) == ad.active

RECURSIVE filterActive(_)
filterActive(s) ==
    IF s = <<>> THEN <<>>
    ELSE IF isActive(Head(s)) THEN <<Head(s)>> \o filterActive(Tail(s))
         ELSE filterActive(Tail(s))

\* app.ts:84-95  .map(ad => ({...ad, distance: Math.round(distance)}))
withDistanceMutant(ad, userLat, userLng) ==
    [id |-> ad.id, latitude |-> ad.latitude, longitude |-> ad.longitude,
     radius |-> ad.radius, active |-> ad.active, priority |-> ad.priority,
     distance |-> MathRound(calculateDistance(userLat, userLng,
                                              ad.latitude, ad.longitude)
                            + DmPerMeter \div 2)]
withDistance(ad, userLat, userLng) ==
    [id |-> ad.id, latitude |-> ad.latitude, longitude |-> ad.longitude,
     radius |-> ad.radius, active |-> ad.active, priority |-> ad.priority,
     distance |-> MathRound(calculateDistance(userLat, userLng,
                                              ad.latitude, ad.longitude))]

\* app.ts:96  .filter(ad => ad.distance <= ad.radius)
inRadius(ad) == ad.distance <= ad.radius

RECURSIVE filterRadius(_)
filterRadius(s) ==
    IF s = <<>> THEN <<>>
    ELSE IF inRadius(Head(s)) THEN <<Head(s)>> \o filterRadius(Tail(s))
         ELSE filterRadius(Tail(s))

\* app.ts:97-103, the comparator handed to sort: negative, zero or positive.
compareAdsMutant(a, b) == a.priority - b.priority
compareAds(a, b) ==
    IF a.priority # b.priority THEN a.priority - b.priority
    ELSE a.distance - b.distance

\* The place of x in the sorted sequence s for a stable sort: behind every
\* element that does not compare greater than x.
RECURSIVE InsertPosUnstable(_, _, _)
InsertPosUnstable(s, x, i) ==
    IF i <= Len(s) /\ compareAds(s[i], x) < 0 THEN InsertPosUnstable(s, x, i + 1) ELSE i
RECURSIVE InsertPos(_, _, _)
InsertPos(s, x, i) ==
    IF i <= Len(s) /\ compareAds(s[i], x) <= 0 THEN InsertPos(s, x, i + 1) ELSE i

InsertAt(s, x, i) == SubSeq(s, 1, i - 1) \o <<x>> \o SubSeq(s, i, Len(s))

\* Array.prototype.sort with compareAds: stable (ECMAScript 2019; the program
\* needs Node >= 18 for the global fetch).
RECURSIVE sortAds(_)
sortAds(s) ==
    IF s = <<>> THEN <<>>
    ELSE LET front == sortAds(SubSeq(s, 1, Len(s) - 1))
             x == s[Len(s)]
         IN  InsertAt(front, x, InsertPos(front, x, 1))


\* app.ts:82-103
matchingAds(ads, userLat, userLng) ==
    LET act == filterActive(ads)
        mapped == [i \in 1..Len(act) |-> withDistance(act[i], userLat, userLng)]
    IN  sortAds(filterRadius(mapped))


\* ------------------------------------------------------- routing service
\* What router.project-osrm.org may answer to one fetch (app.ts:118): the
\* response headers, and then the body that osrmResponse.json() reads.
Statuses == {200, 500}
Headers == [status : Statuses, json : BOOLEAN]

Body(parses, code, hasRoutes, routes) ==
    [parses |-> parses, code |-> code, hasRoutes |-> hasRoutes, routes |-> routes]
NoBody == Body(FALSE, "", FALSE, <<>>)
OkRoute == Body(TRUE, "Ok", TRUE, << Num(1234) >>)   \* a route of 123.4 s
Bodies ==
    { NoBody,                                        \* not parseable as JSON
      OkRoute,
      Body(TRUE, "Ok", TRUE, <<>>),                  \* routes: []
      Body(TRUE, "Ok", FALSE, <<>>),                 \* no routes field
      Body(TRUE, "NoRoute", TRUE, << Num(1234) >>),  \* code is not 'Ok'
      Body(TRUE, "InvalidQuery", FALSE, <<>>) }      \* an error envelope
\* The bodies the model sends with each status.
BodiesFor(status) ==
    IF status = 200 THEN Bodies \ { Body(TRUE, "InvalidQuery", FALSE, <<>>) }
    ELSE { OkRoute, Body(TRUE, "InvalidQuery", FALSE, <<>>) }

\* What the duration field of a route may hold: a number of either sign,
\* nothing, or a string that is no numeral.
Durations == { Num(1234), Num(-1234), Undefined, Str }

\* app.ts:139-142: Math.round(osrmData.routes[0].duration); Math.round of
\* undefined or of a string that is no numeral is NaN.
durationOf(osrmData) ==
    IF osrmData.code = "Ok" /\ osrmData.hasRoutes /\ Len(osrmData.routes) > 0
    THEN (IF osrmData.routes[1].t = "num"
          THEN Num(MathRound(osrmData.routes[1].v)) ELSE NaN)
    ELSE Null

\* res.json: JSON.stringify writes NaN as null.
toJSON(v) == IF v.t = "num" THEN v ELSE Null

\* app.ts:125-134, 144-153, 160-169: the object one candidate resolves to.
adWithDuration(ad, duration) ==
    [id |-> ad.id, latitude |-> ad.latitude, longitude |-> ad.longitude,
     distance |-> ad.distance, duration |-> duration]

\* ------------------------------------------------------------------ state
VARIABLES
    catalog,          \* the content of data/ads.json
    readable,         \* data/ads.json can be read and parsed
    phase,            \* "idle", "enriching" (awaiting Promise.all), "responded",
                      \* "crashed" (the handler threw), "chat"
    query,            \* req.query: [latitude, longitude], each a character sequence
    ads,              \* the result of getAds() in this request
    catalogReads,     \* how often this request has read the catalog
    ranked,           \* matchingAds of this request
    calls,            \* one routing call per entry of ranked
    settled,          \* the candidates in the order in which their calls ended
    response,         \* what res.status(..).json(..) has sent
    chat,             \* the chat turn, see NoChat
    page              \* the front-end page, see NoPage

vars == <<catalog, readable, phase, query, ads, catalogReads, ranked, calls,
          settled, response, chat, page>>

NoResponse == [status |-> 0, error |-> "", ads |-> <<>>, total |-> 0, message |-> ""]
\* The body a chat turn is answered with; status 0: not answered yet.
NoReply == [status |-> 0, error |-> "", response |-> "", details |-> "",
            nearbyBusinesses |-> 0]
\* A chat turn: stage "none", "locating" (await getCurrentLocationName),
\* "generating" (await generateContent) or "responded"; generateCalls: how
\* often generateContent was called; thrown: the message of the error caught.
NoChat == [stage |-> "none", userLocation |-> <<>>, nearbyAds |-> <<>>,
           adsContext |-> "", generateCalls |-> 0, thrown |-> "",
           reply |-> NoReply]
NoQuery == [latitude |-> <<>>, longitude |-> <<>>]
\* useAdRecommendations (page.tsx:89-125) and the carousel of the page
\* (page.tsx:261, 268-287).  ads, isLoading, error ("" for null): the hook's
\* state; fetches: the requests the hook has issued, in the order of issue,
\* each with the location it asked for, whether it has settled and the list it
\* has put into ads; currentAdIndex: the carousel's index, counted from 0 as
\* in the code; indexEffect: ads has been set and the effect on [ads] that
\* resets the index is still to run.
NoRecs == [ads |-> <<>>, isLoading |-> FALSE, error |-> "", fetches |-> <<>>,
           currentAdIndex |-> 0, indexEffect |-> FALSE]
\* The Map component (Chatbot.tsx:267-686) once Leaflet has loaded and the map
\* is initialised.  userLocation, endLocation (<<>> for null and undefined),
\* showRoute: the props; fetches: the routing requests not yet settled, each
\* with the props its callbacks closed over; issued: how many there were;
\* layers, markers: the route layers and destination markers on the map;
\* routeLayerRef, endMarkerRef: the id of the layer and of the marker that the
\* refs hold (0 for null).
NoMap == [userLocation |-> <<>>, endLocation |-> <<>>, showRoute |-> FALSE,
          fetches |-> {}, issued |-> 0, layers |-> {}, markers |-> {},
          routeLayerRef |-> 0, endMarkerRef |-> 0]
\* The Chatbot component (Chatbot.tsx:17-252).  isOpen, messages,
\* inputMessage, isLoading: its state; requests: the chat requests not yet
\* settled; sent: how many there were.
NoChatbot == [isOpen |-> FALSE, messages |-> <<>>, inputMessage |-> "",
              isLoading |-> FALSE, requests |-> {}, sent |-> 0]
\* The page (page.tsx) with its useUserLocation hook (Chatbot.tsx:689-765) and
\* the geolocation service of the browser.  mounted: the page has loaded;
\* supported: navigator.geolocation exists; location (<<>> for null), error
\* ("" for null), isTracking and watchIdRef (0 for null): the hook's state;
\* watches: the watches registered with the browser, each with its id and with
\* whether the `location` its error callback closed over was set; requests:
\* the getCurrentPosition calls not yet answered; nextId: the id that the next
\* watchPosition returns; enabled: the user has asked for tracking since the
\* page loaded; stopped: the user has stopped tracking and not started it
\* again.
\* recs: the state of useAdRecommendations and of the carousel; map: the Map
\* component; chatbot: the Chatbot component.
NoPage == [mounted |-> FALSE, supported |-> TRUE, location |-> <<>>,
           error |-> "", isTracking |-> FALSE, watchIdRef |-> 0,
           watches |-> {}, requests |-> 0, nextId |-> 1,
           enabled |-> FALSE, stopped |-> FALSE, recs |-> NoRecs,
           map |-> NoMap, chatbot |-> NoChatbot]

\* A routing call: url: the coordinates it asks a route for; stage "notStarted", "fetching" (await fetch), "body"
\* (await osrmResponse.json()) or "done"; timer: the 5 s setTimeout is armed;
\* reply: what the service did ("pending", "timeout", "error", "response"), with
\* the headers and body it sent; duration: what the candidate resolved to.
NoHeaders == [status |-> 0, json |-> FALSE]
Call(url, stage, timer, via, headers, body, duration) ==
    [url |-> url, stage |-> stage, timer |-> timer, via |-> via, headers |-> headers,
     body |-> body, duration |-> duration]


\* ----------------------------------------------------------------- inputs
\* The query strings the model sends.  "0.000036" is 36 ticks, 4.0 m north of
\* the site at latitude 0.
LatitudeInputs ==
    { <<>>,                                       \* absent or empty
      <<"0">>,
      <<"0", ".", "0", "0", "0", "0", "3", "6">>, \* 4.0 m from site 1, 4.6 m from site 2
      <<"0", ".", "0", "0", "0", "0", "4">>,      \* 4.4 m from site 1, 4.2 m from site 2
      <<"0", ".", "0", "0", "0", "0", "4", "5">>, \* 5.0 m from site 1, 3.6 m from site 2
      <<" ", "9", "0">>, <<"-", "9", "0">>,       \* the poles
      <<"2", "0", "0">>, <<"-", "9", "1">>,       \* out of range
      <<"x">>, <<"-">>, <<".">>,                  \* no number
      <<"4", "5", "x">> }                         \* a number followed by garbage
LongitudeInputs ==
    { <<>>, <<"0">>, <<"1", "8", "0">>, <<"1", "8", "1">>,
      <<"-", "1", "8", "1">>, <<"x">>, <<"1", "8", "0", "x">> }

\* chatHandler.ts:9  userLocation: [number, number] | null, numbers in ticks;
\* <<>> stands for null.
\* 179857 ticks are 20000.0 m and 179858 ticks 20000.2 m; the last two
\* are outside the coordinate range.
ChatLocations ==
    { <<>>, <<0, 0>>, <<40, 0>>, <<TicksPerDegree, 0>>,
      <<179857, 0>>, <<179858, 0>>,
      <<200 * TicksPerDegree, 0>>, <<360 * TicksPerDegree, 0>> }

\* ------------------------------------------------------------------- Init
Init ==
    /\ catalog \in Catalogs
    /\ readable \in BOOLEAN
    /\ page = NoPage
    /\ phase = "idle"
    /\ query = NoQuery
    /\ ads = <<>>
    /\ catalogReads = 0
    /\ ranked = <<>>
    /\ calls = <<>>
    /\ settled = <<>>
    /\ response = NoResponse
    /\ chat = NoChat

\* The outcome of reading the catalog: it threw, or it returned ads.
Returned(list) == [threw |-> FALSE, ads |-> list]
Threw == [threw |-> TRUE, ads |-> <<>>]

\* app.ts:31-40: readFileSync and JSON.parse inside try; the catch block logs
\* and returns [].
getAdsMutant == IF readable THEN Returned(catalog) ELSE Threw
getAds == IF readable THEN Returned(catalog) ELSE Returned(<<>>)

\* app.ts:55-58, 66-69, 73-76: res.status(400).json({error, message})
Reject(error) ==
    [status |-> 400, error |-> error, ads |-> <<>>, total |-> 0, message |-> ""]

\* app.ts:54
missingParameters(latitude, longitude) == latitude = <<>> \/ longitude = <<>>

\* app.ts:72
outOfRange(userLat, userLng) ==
    \/ userLat < -MaxLatitude * TicksPerDegree
    \/ userLat > MaxLatitude * TicksPerDegree
    \/ userLng < -MaxLongitude * TicksPerDegree
    \/ userLng > MaxLongitude * TicksPerDegree

\* app.ts:109-118: matchingAds.map(async (ad) => ...) runs every callback up
\* to its first await, so every fetch is issued (and its timer armed) before
\* Promise.all is awaited.  The candidates whose fetch has been issued then:
issuedMutant(n) == IF n = 0 THEN {} ELSE {1}
issued(n) == 1..n

\* app.ts:112: the URL of the routing request, as its two coordinates.
osrmUrl(userLat, userLng, ad) ==
    [from |-> <<userLng, userLat>>, to |-> <<ad.longitude, ad.latitude>>]

startCall(i, n, url) ==
    IF i \in issued(n)
    THEN Call(url, "fetching", TRUE, "pending", NoHeaders, NoBody, Null)
    ELSE Call(url, "notStarted", FALSE, "pending", NoHeaders, NoBody, Null)

\* GET /api/ads/recommendations, app.ts:50-185, up to the first await (or to the
\* response when there is none).  An exception that leaves the async handler
\* rejects its promise, which nothing handles: the request gets no response
\* ("crashed").
Recommendations(latitude, longitude) ==
    /\ phase = "idle"
    /\ query' = [latitude |-> latitude, longitude |-> longitude]
    /\ chat' = NoChat
    /\ UNCHANGED <<catalog, readable, page>>
    /\ LET userLat == parseFloat(latitude)
           userLng == parseFloat(longitude)
           bad(error) ==
               /\ response' = Reject(error)
               /\ phase' = "responded"
               /\ ads' = <<>>
               /\ catalogReads' = 0
               /\ ranked' = <<>>
               /\ calls' = <<>>
               /\ settled' = <<>>
       IN  IF missingParameters(latitude, longitude)
           THEN bad("Missing required parameters")
           ELSE IF isNaN(userLat) \/ isNaN(userLng)
           THEN bad("Invalid coordinates")
           ELSE IF outOfRange(userLat.v, userLng.v)
           THEN bad("Invalid coordinates")
           ELSE LET read == getAds
                    matching == matchingAds(read.ads, userLat.v, userLng.v)
                IN  /\ ads' = read.ads
                    /\ catalogReads' = 1
                    /\ ranked' = matching
                    /\ settled' = <<>>
                    /\ IF read.threw
                       THEN /\ calls' = <<>>
                            /\ response' = NoResponse
                            /\ phase' = "crashed"
                       ELSE IF Len(matching) > 0
                       THEN /\ calls' = [i \in 1..Len(matching) |->
                                            startCall(i, Len(matching),
                                                      osrmUrl(userLat.v, userLng.v,
                                                              matching[i]))]
                            /\ response' = NoResponse
                            /\ phase' = "enriching"
                       ELSE /\ calls' = <<>>
                            /\ response' =
                                 [status |-> 200, error |-> "", ads |-> <<>>,
                                  total |-> 0,
                                  message |-> "No ads available in your area"]
                            /\ phase' = "responded"

\* app.ts:154-169: the catch block resolves the candidate with duration: null.
durationOnErrorMutant == Num(0)
durationOnError == Null

\* app.ts:118-135: fetch resolves with the response headers; the timer is
\* cleared; a content type that is not JSON ends the call with duration null.
FetchResolves(i, h) ==
    /\ phase = "enriching"
    /\ i \in 1..Len(calls)
    /\ calls[i].stage = "fetching"
    /\ calls' = [calls EXCEPT ![i] =
                    IF h.json
                    THEN Call(calls[i].url, "body", FALSE, "response", h, NoBody, Null)
                    ELSE Call(calls[i].url, "done", FALSE, "response", h, NoBody, Null)]
    /\ settled' = IF h.json THEN settled ELSE Append(settled, i)
    /\ UNCHANGED <<catalog, readable, page, phase, query, ads, catalogReads, ranked, response, chat>>

\* app.ts:154-169: fetch rejects (network error); clearTimeout is skipped.
FetchRejects(i) ==
    /\ phase = "enriching"
    /\ i \in 1..Len(calls)
    /\ calls[i].stage = "fetching"
    /\ calls' = [calls EXCEPT ![i] =
                    Call(calls[i].url, "done", calls[i].timer, "error", NoHeaders, NoBody,
                         durationOnError)]
    /\ settled' = Append(settled, i)
    /\ UNCHANGED <<catalog, readable, page, phase, query, ads, catalogReads, ranked, response, chat>>

\* app.ts:116: the timer fires and aborts the controller; a fetch still pending
\* rejects with AbortError (app.ts:155-169); a settled call is not touched.
TimeoutFires(i) ==
    /\ phase = "enriching"
    /\ i \in 1..Len(calls)
    /\ calls[i].timer
    /\ calls' = [calls EXCEPT ![i] =
                    IF calls[i].stage = "fetching"
                    THEN Call(calls[i].url, "done", FALSE, "timeout", NoHeaders, NoBody,
                              durationOnError)
                    ELSE [calls[i] EXCEPT !.timer = FALSE]]
    /\ settled' = IF calls[i].stage = "fetching" THEN Append(settled, i) ELSE settled
    /\ UNCHANGED <<catalog, readable, page, phase, query, ads, catalogReads, ranked, response, chat>>

\* app.ts:137-153: osrmResponse.json() settles: it throws on a body that is
\* not JSON (caught, duration null), else the duration is read from the data.
jsonSettles(i, b) ==
    /\ phase = "enriching"
    /\ i \in 1..Len(calls)
    /\ calls[i].stage = "body"
    /\ calls' = [calls EXCEPT ![i] =
                    Call(calls[i].url, "done", calls[i].timer, "response", calls[i].headers, b,
                         IF b.parses THEN durationOf(b) ELSE durationOnError)]
    /\ settled' = Append(settled, i)
    /\ UNCHANGED <<catalog, readable, page, phase, query, ads, catalogReads, ranked, response, chat>>

\* The body of the response arrives: one of those sent with its status.
BodyArrives(i, b) ==
    /\ i \in 1..Len(calls)
    /\ b \in BodiesFor(calls[i].headers.status)
    /\ jsonSettles(i, b)

\* The same step for a success response that holds one route, whose duration
\* field is d.
RouteArrives(i, d) ==
    /\ i \in 1..Len(calls)
    /\ calls[i].headers.status = 200
    /\ jsonSettles(i, Body(TRUE, "Ok", TRUE, << d >>))

\* app.ts:109: Promise.all resolves with the values in the order of the
\* promises it was given, whatever the order in which they settled.
promiseAllMutant(values, order) == [k \in 1..Len(order) |-> values[order[k]]]
promiseAll(values, order) == values

\* app.ts:109: the callbacks close over the entries of matchingAds, the list
\* computed from the one getAds() of the request (app.ts:79-103).
candidatesMutant ==
    matchingAds(getAds.ads, parseFloat(query.latitude).v, parseFloat(query.longitude).v)
candidates == ranked

\* app.ts:109, 174-177: Promise.all resolves once every candidate has, with
\* the results in the order of matchingAds; res.json sends them.
Respond ==
    /\ phase = "enriching"
    /\ \A i \in 1..Len(calls) : calls[i].stage = "done"
    /\ LET adsWithDuration ==
               promiseAll([i \in 1..Len(candidates) |->
                              adWithDuration(candidates[i], toJSON(calls[i].duration))],
                          settled)
       IN  response' = [status |-> 200, error |-> "", ads |-> adsWithDuration,
                        total |-> Len(adsWithDuration), message |-> ""]
    /\ phase' = "responded"
    /\ UNCHANGED <<catalog, readable, page, query, ads, catalogReads, ranked, calls, settled, chat>>


\* ---------------------------------------------------------- getNearbyAds
\* chatHandler.ts:45-48  .map(ad => ({...ad, distance})): the raw distance, in
\* decimeters here.
withRawDistance(ad, userLat, userLng) ==
    [id |-> ad.id, latitude |-> ad.latitude, longitude |-> ad.longitude,
     radius |-> ad.radius, active |-> ad.active, priority |-> ad.priority,
     distance |-> calculateDistance(userLat, userLng, ad.latitude, ad.longitude)]

\* chatHandler.ts:44  .filter(ad => ad.active)
isActiveChat(ad) == ad.active

\* chatHandler.ts:49  .filter(ad => ad.distance <= maxDistance)
withinMaxDistanceMutant(ad) == ad.distance <= ad.radius * DmPerMeter
withinMaxDistance(ad) == ad.distance <= maxDistance * DmPerMeter

RECURSIVE filterNearby(_)
filterNearby(s) ==
    IF s = <<>> THEN <<>>
    ELSE IF isActiveChat(Head(s)) /\ withinMaxDistance(Head(s))
         THEN <<Head(s)>> \o filterNearby(Tail(s))
         ELSE filterNearby(Tail(s))

\* chatHandler.ts:50  .sort((a, b) => a.distance - b.distance), stable.
RECURSIVE InsertPosByDistance(_, _, _)
InsertPosByDistance(s, x, i) ==
    IF i <= Len(s) /\ s[i].distance - x.distance <= 0
    THEN InsertPosByDistance(s, x, i + 1) ELSE i

RECURSIVE sortByDistance(_)
sortByDistance(s) ==
    IF s = <<>> THEN <<>>
    ELSE LET front == sortByDistance(SubSeq(s, 1, Len(s) - 1))
             x == s[Len(s)]
         IN  InsertAt(front, x, InsertPosByDistance(front, x, 1))

\* Array.prototype.slice(0, n)
slice(s, n) == SubSeq(s, 1, IF Len(s) < n THEN Len(s) ELSE n)

\* chatHandler.ts:30-34: readFileSync and JSON.parse with no try around them.
chatGetAds == IF readable THEN Returned(catalog) ELSE Threw

\* chatHandler.ts:37-52
getNearbyAdsMutant(userLocation) ==
    IF userLocation = <<>> THEN Returned(<<>>)
    ELSE LET read == chatGetAds
             mapped == [i \in 1..Len(read.ads) |->
                           withRawDistance(read.ads[i], userLocation[1], userLocation[2])]
         IN  IF read.threw THEN Threw
             ELSE Returned(sortByDistance(slice(filterNearby(mapped), TopN)))
getNearbyAds(userLocation) ==
    IF userLocation = <<>> THEN Returned(<<>>)
    ELSE LET read == chatGetAds
             mapped == [i \in 1..Len(read.ads) |->
                           withRawDistance(read.ads[i], userLocation[1], userLocation[2])]
         IN  IF read.threw THEN Threw
             ELSE Returned(slice(sortByDistance(filterNearby(mapped)), TopN))

\* ------------------------------------------------------ formatAdsContext
\* The text fields of a record, which ads.json carries along with its id.
businessName(ad) == "Business " \o ad.id
description(ad) == "About " \o ad.id
websiteUrl(ad) == "https://" \o ad.id \o ".example"

\* chatHandler.ts:60  ad.distance / 1609.34, as hundredths of a meter per mile
CmPerMile == 160934

\* Number.prototype.toFixed(1) of a value given in tenths.
toFixed1(tenths) == ToString(tenths \div 10) \o "." \o ToString(tenths % 10)

\* chatHandler.ts:59  (ad.distance / 1000).toFixed(1); ad.distance in decimeters
distanceKm(ad) == toFixed1((ad.distance + 500) \div 1000)
\* chatHandler.ts:60  (ad.distance / 1609.34).toFixed(1)
distanceMi(ad) == toFixed1((ad.distance * 200 + CmPerMile) \div (2 * CmPerMile))

\* chatHandler.ts:58-61: the text of one entry; index counts from 0.
entryTextMutant(ad, index) ==
    ToString(index) \o ". " \o businessName(ad) \o " - " \o description(ad)
        \o " (" \o distanceMi(ad) \o " mi / " \o distanceKm(ad)
        \o " km away)\n   Website: " \o websiteUrl(ad)
entryText(ad, index) ==
    ToString(index + 1) \o ". " \o businessName(ad) \o " - " \o description(ad)
        \o " (" \o distanceMi(ad) \o " mi / " \o distanceKm(ad)
        \o " km away)\n   Website: " \o websiteUrl(ad)

\* Array.prototype.join
RECURSIVE join(_, _)
join(strs, sep) ==
    IF strs = <<>> THEN ""
    ELSE IF Len(strs) = 1 THEN strs[1]
    ELSE strs[1] \o sep \o join(Tail(strs), sep)

\* chatHandler.ts:55-63
formatAdsContextMutant(nearby) ==
    join([i \in 1..Len(nearby) |-> entryText(nearby[i], i - 1)], "\n")
formatAdsContext(nearby) ==
    IF Len(nearby) = 0 THEN "No nearby businesses available."
    ELSE join([i \in 1..Len(nearby) |-> entryText(nearby[i], i - 1)], "\n")

\* ----------------------------------------------------- handleChatMessage
\* chatHandler.ts:117  process.env.GEMINI_API_KEY; "" stands for unset.
ApiKeys == { "", "key" }

\* What ai.models.generateContent may do (chatHandler.ts:217-242): resolve with
\* a text, or reject with an error.
Generations ==
    { [ok |-> TRUE, text |-> "Try Business a.", message |-> ""],
      [ok |-> FALSE, text |-> "", message |-> "fetch failed"],
      [ok |-> FALSE, text |-> "",
       message |-> "API key not valid. Please pass a valid API key."] }

\* chatHandler.ts:126
KeyError == "GEMINI_API_KEY is not configured"

\* The message of the error that a failed catalog read throws.
ReadError == "ENOENT: no such file or directory, open 'data/ads.json'"

\* chatHandler.ts:248-253: res.json({response, timestamp, nearbyBusinesses,
\* currentLocation}); the fields of the error body are absent ("").
okBody(responseText, nearby) ==
    [status |-> 200, error |-> "", response |-> responseText, details |-> "",
     nearbyBusinesses |-> Len(nearby)]

\* chatHandler.ts:254-267: the catch block of the handler.
catchBlock(message) ==
    [status |-> 500, error |-> "Failed to process chat message",
     response |-> "I'm sorry, I'm having trouble right now. Please try again in a moment.",
     details |-> message, nearbyBusinesses |-> 0]

\* POST /api/chat, chatHandler.ts:110-133: up to the await of
\* getCurrentLocationName, or to the catch block when the key is not set.
HandleChatMessage(userLocation, apiKey) ==
    /\ phase = "idle"
    /\ phase' = "chat"
    /\ chat' = IF apiKey = ""
               THEN [NoChat EXCEPT !.stage = "responded",
                                   !.userLocation = userLocation,
                                   !.thrown = KeyError,
                                   !.reply = catchBlock(KeyError)]
               ELSE [NoChat EXCEPT !.stage = "locating",
                                   !.userLocation = userLocation]
    /\ query' = NoQuery
    /\ ads' = <<>>
    /\ catalogReads' = 0
    /\ ranked' = <<>>
    /\ calls' = <<>>
    /\ settled' = <<>>
    /\ response' = NoResponse
    /\ UNCHANGED <<catalog, readable, page>>

\* chatHandler.ts:133-227: getCurrentLocationName has settled (it catches its
\* own errors); the nearby-business set is computed and formatted, and
\* generateContent is called.  A throw on the way ends in the catch block.
LocationNameSettles ==
    /\ phase = "chat"
    /\ chat.stage = "locating"
    /\ LET near == getNearbyAds(chat.userLocation)
       IN  chat' = IF near.threw
                   THEN [chat EXCEPT !.stage = "responded",
                                     !.thrown = ReadError,
                                     !.reply = catchBlock(ReadError)]
                   ELSE [chat EXCEPT !.stage = "generating",
                                     !.nearbyAds = near.ads,
                                     !.adsContext = formatAdsContext(near.ads),
                                     !.generateCalls = 1]
    /\ UNCHANGED <<catalog, readable, page, phase, query, ads, catalogReads,
                   ranked, calls, settled, response>>

\* chatHandler.ts:217-267: generateContent settles and the turn is answered.
GenerateContentSettles(g) ==
    /\ phase = "chat"
    /\ chat.stage = "generating"
    /\ chat' = IF g.ok
               THEN [chat EXCEPT !.stage = "responded",
                                 !.reply = okBody(g.text, chat.nearbyAds)]
               ELSE [chat EXCEPT !.stage = "responded",
                                 !.thrown = g.message,
                                 !.reply = catchBlock(g.message)]
    /\ UNCHANGED <<catalog, readable, page, phase, query, ads, catalogReads,
                   ranked, calls, settled, response>>

\* ------------------------------------------------------- useUserLocation
\* The positions the geolocation service reports, in ticks.
Positions == { <<0, 0>>, <<40, 0>> }

\* Chatbot.tsx:699
NotSupported == "Geolocation is not supported by your browser"
\* err.message of a GeolocationPositionError
PositionError == "User denied Geolocation"

\* Chatbot.tsx:695-744
startTracking(p) ==
    IF ~p.supported THEN [p EXCEPT !.error = NotSupported]
    ELSE [p EXCEPT !.isTracking = TRUE,
                   !.error = "",
                   !.requests = @ + 1,
                   !.watchIdRef = p.nextId,
                   !.watches = @ \cup { [id |-> p.nextId, seen |-> p.location # <<>>] },
                   !.nextId = @ + 1]

\* Chatbot.tsx:746-754
stopTracking(p) ==
    [p EXCEPT !.watches = { w \in @ : w.id # p.watchIdRef },
              !.watchIdRef = 0,
              !.isTracking = FALSE]

backend == <<catalog, readable, phase, query, ads, catalogReads, ranked, calls,
             settled, response, chat>>

\* page.tsx:263-266: the page loads, and its mount effect starts tracking.
PageMount ==
    /\ ~page.mounted
    /\ page' = startTracking([page EXCEPT !.mounted = TRUE])
    /\ UNCHANGED backend

\* The user asks for tracking: startTracking of the hook's interface.
UserStartsTracking ==
    /\ page.mounted
    /\ page.nextId <= MaxStarts + 1
    /\ page' = startTracking([page EXCEPT !.enabled = TRUE, !.stopped = FALSE])
    /\ UNCHANGED backend

\* The user stops tracking: stopTracking of the hook's interface.
UserStopsTracking ==
    /\ page.mounted
    /\ page' = [stopTracking(page) EXCEPT !.stopped = TRUE]
    /\ UNCHANGED backend

\* Chatbot.tsx:707-722: a getCurrentPosition call is answered, with a position
\* or (pos = <<>>) with an error, which is only logged.
CurrentPositionSettles(pos) ==
    /\ page.requests > 0
    /\ page' = [page EXCEPT !.requests = @ - 1,
                            !.location = IF pos = <<>> THEN @ ELSE pos]
    /\ UNCHANGED backend

\* Chatbot.tsx:726-729: a watch reports a position.
WatchReports(w, pos) ==
    /\ w \in page.watches
    /\ page' = [page EXCEPT !.location = pos, !.error = ""]
    /\ UNCHANGED backend

\* Chatbot.tsx:730-737: a watch reports an error; `location` is the value that
\* the callback closed over when the watch was registered.
WatchFails(w) ==
    /\ w \in page.watches
    /\ page' = IF w.seen THEN page ELSE [page EXCEPT !.error = PositionError]
    /\ UNCHANGED backend

\* Every watch that the model can register.
WatchSlots == [id : 1..(MaxStarts + 1), seen : BOOLEAN]

PageInit ==
    /\ catalog = <<>>
    /\ readable = TRUE
    /\ page \in { [NoPage EXCEPT !.supported = b] : b \in BOOLEAN }
    /\ phase = "idle"
    /\ query = NoQuery
    /\ ads = <<>>
    /\ catalogReads = 0
    /\ ranked = <<>>
    /\ calls = <<>>
    /\ settled = <<>>
    /\ response = NoResponse
    /\ chat = NoChat

PageNext ==
    \/ PageMount
    \/ UserStartsTracking
    \/ UserStopsTracking
    \/ \E pos \in Positions \cup { <<>> } : CurrentPositionSettles(pos)
    \/ \E w \in WatchSlots, pos \in Positions : WatchReports(w, pos)
    \/ \E w \in WatchSlots : WatchFails(w)

PageSpec == PageInit /\ [][PageNext]_vars

\* ------------------------------------------- useAdRecommendations, carousel
\* How many times the location changes.
MaxMoves == 3

\* The catalog the backend serves the page from: one record at each site.
PageCatalog ==
    << [id |-> "a", latitude |-> 0, longitude |-> 0, radius |-> 4,
        active |-> TRUE, priority |-> 1],
       [id |-> "b", latitude |-> 78, longitude |-> 0, radius |-> 5,
        active |-> TRUE, priority |-> 1] >>

\* The positions of the page: within the radius of a only, of both a and b,
\* and of neither.
PagePositions == Positions \cup { <<400, 0>> }

\* data.ads of GET /api/ads/recommendations for a location (app.ts:82-103,
\* 174-177), routing having failed for every candidate.
dataAds(location) ==
    LET matches == matchingAds(PageCatalog, location[1], location[2])
    IN  [i \in 1..Len(matches) |-> adWithDuration(matches[i], Null)]

\* What a fetch of the hook may come to: a body with ads, a body without
\* (an error body), or a rejection (no connection, or a body that is no JSON).
FetchOutcomes == { "data", "errorBody", "rejected" }

\* page.tsx:107-118: the list that a settled fetch puts into ads.
adsOf(location, outcome) ==
    IF outcome = "data" /\ Len(dataAds(location)) > 0 THEN dataAds(location)
    ELSE <<>>

\* page.tsx:94-105: the effect on [location] issues a fetch for the location.
locationEffect(p) ==
    IF p.location = <<>> THEN p
    ELSE [p EXCEPT !.recs.isLoading = TRUE,
                   !.recs.error = "",
                   !.recs.fetches = Append(@, [location |-> p.location,
                                               settled |-> FALSE,
                                               result |-> <<>>])]

\* Chatbot.tsx:726-729, page.tsx:94-105: a watch reports a position, and the
\* effect on [location] runs.
PositionReported(pos) ==
    /\ ~page.recs.indexEffect
    /\ Len(page.recs.fetches) < MaxMoves
    /\ \E w \in page.watches :
          page' = locationEffect([page EXCEPT !.location = pos, !.error = ""])
    /\ UNCHANGED backend

\* page.tsx:105-121: a fetch settles; then, catch and finally run.
AdsFetchSettles(i, outcome) ==
    /\ ~page.recs.indexEffect
    /\ i \in 1..Len(page.recs.fetches)
    /\ ~page.recs.fetches[i].settled
    /\ LET result == adsOf(page.recs.fetches[i].location, outcome)
       IN  page' = [page EXCEPT
                 !.recs.ads = result,
                 !.recs.error = IF outcome = "rejected"
                                THEN "Failed to load recommendations" ELSE @,
                 !.recs.isLoading = FALSE,
                 !.recs.fetches[i] = [@ EXCEPT !.settled = TRUE, !.result = result],
                 !.recs.indexEffect = TRUE]
    /\ UNCHANGED backend

\* page.tsx:268-271: the effect on [ads], after the page has rendered with the
\* new list.
IndexEffect ==
    /\ page.recs.indexEffect
    /\ page' = [page EXCEPT !.recs.currentAdIndex = 0, !.recs.indexEffect = FALSE]
    /\ UNCHANGED backend

\* page.tsx:274
recommendedAd(r) ==
    IF Len(r.ads) > 0
    THEN (IF r.currentAdIndex < Len(r.ads) THEN r.ads[r.currentAdIndex + 1]
          ELSE Undefined)
    ELSE Null

\* page.tsx:455, 462, 476: the arrows are rendered.
arrowsShown(r) ==
    /\ ~r.isLoading
    /\ recommendedAd(r) \notin {Null, Undefined}
    /\ Len(r.ads) > 1

\* page.tsx:277-281
handleNextAd(r) ==
    IF Len(r.ads) > 0 /\ r.currentAdIndex < Len(r.ads) - 1
    THEN [r EXCEPT !.currentAdIndex = @ + 1] ELSE r

\* page.tsx:283-287
handlePrevAd(r) ==
    IF Len(r.ads) > 0 /\ r.currentAdIndex > 0
    THEN [r EXCEPT !.currentAdIndex = @ - 1] ELSE r

\* page.tsx:493-498: the user clicks the right arrow.
NextAd ==
    /\ ~page.recs.indexEffect
    /\ arrowsShown(page.recs)
    /\ page.recs.currentAdIndex < Len(page.recs.ads) - 1
    /\ page' = [page EXCEPT !.recs = handleNextAd(@)]
    /\ UNCHANGED backend

\* page.tsx:479-484: the user clicks the left arrow.
PrevAd ==
    /\ ~page.recs.indexEffect
    /\ arrowsShown(page.recs)
    /\ page.recs.currentAdIndex > 0
    /\ page' = [page EXCEPT !.recs = handlePrevAd(@)]
    /\ UNCHANGED backend

\* The page has loaded and its mount effect has started tracking.
AdsInit ==
    /\ catalog = PageCatalog
    /\ readable = TRUE
    /\ page = startTracking([NoPage EXCEPT !.mounted = TRUE])
    /\ phase = "idle"
    /\ query = NoQuery
    /\ ads = <<>>
    /\ catalogReads = 0
    /\ ranked = <<>>
    /\ calls = <<>>
    /\ settled = <<>>
    /\ response = NoResponse
    /\ chat = NoChat

AdsNext ==
    \/ \E pos \in PagePositions : PositionReported(pos)
    \/ \E i \in 1..MaxMoves, outcome \in FetchOutcomes : AdsFetchSettles(i, outcome)
    \/ IndexEffect
    \/ NextAd
    \/ PrevAd

AdsSpec == AdsInit /\ [][AdsNext]_vars

\* -------------------------------------------------------------------- Map
\* How many times the props of the map change.
MaxRenders == 3

\* The values of the props userLocation and endLocation.
MapUserLocations == Positions \cup { <<>> }
MapEndLocations == { <<>>, <<0, 0>>, <<78, 0>> }

\* Chatbot.tsx:465-481, 516-532, 604-620: remove the layer and the marker that
\* the refs hold.
removeRoute(m) ==
    [m EXCEPT !.layers = { l \in @ : l.id # m.routeLayerRef },
              !.routeLayerRef = 0,
              !.markers = { k \in @ : k.id # m.endMarkerRef },
              !.endMarkerRef = 0]

\* Chatbot.tsx:534-568, 622-653: add a destination marker and a route line
\* between the two places, and keep them in the refs.
drawRoute(m, id, kind, from, to) ==
    [removeRoute(m) EXCEPT
        !.markers = @ \cup { [id |-> id, at |-> to] },
        !.endMarkerRef = id,
        !.layers = @ \cup { [id |-> id, kind |-> kind, from |-> from, to |-> to] },
        !.routeLayerRef = id]

\* Chatbot.tsx:461-498: the effect on [userLocation, endLocation, showRoute].
routeEffect(m) ==
    LET cleared == removeRoute(m)
    IN  IF ~m.showRoute \/ m.userLocation = <<>> \/ m.endLocation = <<>>
        THEN cleared
        ELSE [cleared EXCEPT
                 !.issued = @ + 1,
                 !.fetches = @ \cup { [id |-> m.issued + 1,
                                       from |-> m.userLocation,
                                       to |-> m.endLocation] }]

\* page.tsx:378-382: the page renders the map with new props, and the route
\* effect runs.
MapPropsChange(userLocation, endLocation, showRoute) ==
    /\ page.map.issued < MaxRenders
    /\ page' = [page EXCEPT !.map = routeEffect([@ EXCEPT
                                !.userLocation = userLocation,
                                !.endLocation = endLocation,
                                !.showRoute = showRoute])]
    /\ UNCHANGED backend

\* What the routing service may answer to the map.
RouteOutcomes == { "route", "noRoute", "failed" }

\* Chatbot.tsx:499-596: a routing request of the map settles: with a route,
\* which is drawn; with a body without a route, or with a failure or the 10 s
\* abort, on which drawStraightLineRoute (Chatbot.tsx:599-663) draws a line.
RouteFetchSettles(f, outcome) ==
    /\ f \in page.map.fetches
    /\ page' = [page EXCEPT !.map =
                   [drawRoute(@, f.id,
                              IF outcome = "route" THEN "driving" ELSE "straight",
                              f.from, f.to)
                       EXCEPT !.fetches = @ \ {f}]]
    /\ UNCHANGED backend

\* The page has loaded and the map is initialised.
MapInit ==
    /\ catalog = <<>>
    /\ readable = TRUE
    /\ page = [NoPage EXCEPT !.mounted = TRUE]
    /\ phase = "idle"
    /\ query = NoQuery
    /\ ads = <<>>
    /\ catalogReads = 0
    /\ ranked = <<>>
    /\ calls = <<>>
    /\ settled = <<>>
    /\ response = NoResponse
    /\ chat = NoChat

MapNext ==
    \/ \E u \in MapUserLocations, e \in MapEndLocations, s \in BOOLEAN :
          MapPropsChange(u, e, s)
    \/ \E f \in page.map.fetches, outcome \in RouteOutcomes :
          RouteFetchSettles(f, outcome)

MapSpec == MapInit /\ [][MapNext]_vars

\* ---------------------------------------------------------------- Chatbot
\* How many messages the user sends.
MaxSends == 2

\* What the user types.
Texts == { "", " ", "hi" }

\* Chatbot.tsx:39
Welcome == [role |-> "assistant", content |-> "Hi! I'm your local guide. What's your destination today?"]
\* Chatbot.tsx:94
ConnectionTrouble ==
    "I'm sorry, I'm having trouble connecting right now. Please try again."

\* data.response of the bodies of POST /api/chat (chatHandler.ts:248-253, 262-266).
ChatResponses == { g.text : g \in { h \in Generations : h.ok } }
                     \cup { catchBlock("").response }

\* String.prototype.trim on strings of letters and spaces.
RECURSIVE trimStart(_)
trimStart(s) ==
    IF Len(s) > 0 /\ SubSeq(s, 1, 1) = " " THEN trimStart(SubSeq(s, 2, Len(s)))
    ELSE s
RECURSIVE trimEnd(_)
trimEnd(s) ==
    IF Len(s) > 0 /\ SubSeq(s, Len(s), Len(s)) = " "
    THEN trimEnd(SubSeq(s, 1, Len(s) - 1))
    ELSE s
trim(s) == trimEnd(trimStart(s))

\* Chatbot.tsx:46-76: handleSendMessage up to the await of fetch.
handleSendMessageMutant(c, userLocation) ==
    IF trim(c.inputMessage) = "" \/ c.isLoading THEN c
    ELSE [c EXCEPT
             !.messages = Append(@, [role |-> "user", content |-> c.inputMessage]),
             !.inputMessage = "",
             !.sent = @ + 1,
             !.requests = @ \cup { [id |-> c.sent + 1,
                                    message |-> c.inputMessage,
                                    userLocation |-> userLocation,
                                    conversationHistory |-> c.messages] }]
handleSendMessage(c, userLocation) ==
    IF trim(c.inputMessage) = "" \/ c.isLoading THEN c
    ELSE [c EXCEPT
             !.messages = Append(@, [role |-> "user", content |-> c.inputMessage]),
             !.inputMessage = "",
             !.isLoading = TRUE,
             !.sent = @ + 1,
             !.requests = @ \cup { [id |-> c.sent + 1,
                                    message |-> c.inputMessage,
                                    userLocation |-> userLocation,
                                    conversationHistory |-> c.messages] }]

\* Chatbot.tsx:153, 34-44: the user opens the chat; the effect on [isOpen]
\* puts the welcome message into an empty list.
OpenChat ==
    /\ ~page.chatbot.isOpen
    /\ page' = [page EXCEPT !.chatbot.isOpen = TRUE,
                            !.chatbot.messages = IF Len(@) = 0 THEN <<Welcome>> ELSE @]
    /\ UNCHANGED backend

\* Chatbot.tsx:174: the user minimises the chat.
CloseChat ==
    /\ page.chatbot.isOpen
    /\ page' = [page EXCEPT !.chatbot.isOpen = FALSE]
    /\ UNCHANGED backend

\* Chatbot.tsx:229-237: the user types into the input, which is disabled
\* while isLoading.
TypeMessage(text) ==
    /\ page.chatbot.isOpen
    /\ ~page.chatbot.isLoading
    /\ text # page.chatbot.inputMessage
    /\ page' = [page EXCEPT !.chatbot.inputMessage = text]
    /\ UNCHANGED backend

\* Chatbot.tsx:103-108, 233, 236: the user presses Enter in the input.
PressEnter ==
    /\ page.chatbot.isOpen
    /\ ~page.chatbot.isLoading
    /\ page.chatbot.sent < MaxSends
    /\ page' = [page EXCEPT !.chatbot = handleSendMessage(@, page.location)]
    /\ UNCHANGED backend

\* Chatbot.tsx:238-245: the user clicks the send button, which is disabled
\* while the input is blank or isLoading.
ClickSend ==
    /\ page.chatbot.isOpen
    /\ ~(trim(page.chatbot.inputMessage) = "" \/ page.chatbot.isLoading)
    /\ page.chatbot.sent < MaxSends
    /\ page' = [page EXCEPT !.chatbot = handleSendMessage(@, page.location)]
    /\ UNCHANGED backend

\* Chatbot.tsx:63-100: the request settles: with a body, whose response is
\* appended, or (text = "") with a rejection or a body that is no JSON, on
\* which the catch block appends its message; finally resets isLoading.
ChatFetchSettles(r, text) ==
    /\ r \in page.chatbot.requests
    /\ page' = [page EXCEPT
                   !.chatbot.messages =
                       Append(@, [role |-> "assistant",
                                  content |-> IF text = "" THEN ConnectionTrouble
                                              ELSE text]),
                   !.chatbot.isLoading = FALSE,
                   !.chatbot.requests = @ \ {r}]
    /\ UNCHANGED backend

\* The page has loaded, with or without a location.
WidgetInit ==
    /\ catalog = <<>>
    /\ readable = TRUE
    /\ page \in { [NoPage EXCEPT !.mounted = TRUE, !.location = l] :
                     l \in Positions \cup { <<>> } }
    /\ phase = "idle"
    /\ query = NoQuery
    /\ ads = <<>>
    /\ catalogReads = 0
    /\ ranked = <<>>
    /\ calls = <<>>
    /\ settled = <<>>
    /\ response = NoResponse
    /\ chat = NoChat

WidgetNext ==
    \/ OpenChat
    \/ CloseChat
    \/ \E text \in Texts : TypeMessage(text)
    \/ PressEnter
    \/ ClickSend
    \/ \E r \in page.chatbot.requests, text \in ChatResponses \cup { "" } :
          ChatFetchSettles(r, text)

WidgetSpec == WidgetInit /\ [][WidgetNext]_vars

\* ------------------------------------------------------------------- Next
Next ==
    \/ \E latitude \in LatitudeInputs, longitude \in LongitudeInputs :
          Recommendations(latitude, longitude)
    \/ \E i \in 1..MaxAds, h \in Headers : FetchResolves(i, h)
    \/ \E i \in 1..MaxAds : FetchRejects(i)
    \/ \E i \in 1..MaxAds : TimeoutFires(i)
    \/ \E i \in 1..MaxAds, b \in Bodies : BodyArrives(i, b)
    \/ Respond
    \/ \E userLocation \in ChatLocations, apiKey \in ApiKeys :
          HandleChatMessage(userLocation, apiKey)
    \/ LocationNameSettles
    \/ \E g \in Generations : GenerateContentSettles(g)

Spec == Init /\ [][Next]_vars

\* The recommendations endpoint with a routing service that answers every
\* call, and whose routes carry any of Durations.
DurationNext ==
    \/ \E latitude \in LatitudeInputs, longitude \in LongitudeInputs :
          Recommendations(latitude, longitude)
    \/ \E i \in 1..MaxAds, h \in Headers : FetchResolves(i, h)
    \/ \E i \in 1..MaxAds, d \in Durations : RouteArrives(i, d)
    \/ Respond

DurationSpec == Init /\ [][DurationNext]_vars

\* data/ads.json is rewritten while a request is waiting for its routing
\* calls: emptied, every record deactivated, or the records reversed.  One
\* rewrite per request.
Rewrites == { "emptied", "deactivated", "reversed" }

rewrite(kind, c) ==
    CASE kind = "emptied" -> <<>>
      [] kind = "deactivated" -> [i \in 1..Len(c) |-> [c[i] EXCEPT !.active = FALSE]]
      [] kind = "reversed" -> [i \in 1..Len(c) |-> c[Len(c) + 1 - i]]

CatalogChanges(kind) ==
    /\ phase = "enriching"
    /\ catalog = ads
    /\ catalog' = rewrite(kind, catalog)
    /\ catalog' # catalog
    /\ UNCHANGED <<readable, page, phase, query, ads, catalogReads, ranked, calls,
                   settled, response, chat>>

SnapshotNext ==
    \/ \E latitude \in LatitudeInputs, longitude \in LongitudeInputs :
          Recommendations(latitude, longitude)
    \/ \E i \in 1..MaxAds, h \in Headers : FetchResolves(i, h)
    \/ \E i \in 1..MaxAds, d \in Durations : RouteArrives(i, d)
    \/ \E kind \in Rewrites : CatalogChanges(kind)
    \/ Respond

SnapshotSpec == Init /\ [][SnapshotNext]_vars

\* The recommendations endpoint over the catalogs of RankCatalogs.
RankInit ==
    /\ catalog \in RankCatalogs
    /\ readable = TRUE
    /\ page = NoPage
    /\ phase = "idle"
    /\ query = NoQuery
    /\ ads = <<>>
    /\ catalogReads = 0
    /\ ranked = <<>>
    /\ calls = <<>>
    /\ settled = <<>>
    /\ response = NoResponse
    /\ chat = NoChat

RankSpec == RankInit /\ [][DurationNext]_vars

\* The chat endpoint alone, over catalogs that hold more records than the
\* nearby-business set.
ChatInit ==
    /\ catalog \in ChatCatalogs
    /\ readable \in BOOLEAN
    /\ page = NoPage
    /\ phase = "idle"
    /\ query = NoQuery
    /\ ads = <<>>
    /\ catalogReads = 0
    /\ ranked = <<>>
    /\ calls = <<>>
    /\ settled = <<>>
    /\ response = NoResponse
    /\ chat = NoChat

ChatNext ==
    \/ \E userLocation \in ChatLocations, apiKey \in ApiKeys :
          HandleChatMessage(userLocation, apiKey)
    \/ LocationNameSettles
    \/ \E g \in Generations : GenerateContentSettles(g)

ChatSpec == ChatInit /\ [][ChatNext]_vars

\* The event loop runs every ready callback, and a timer that stays armed
\* fires; the routing service owes nothing.
FairSpec ==
    /\ Spec
    /\ WF_vars(Respond)
    /\ \A i \in 1..MaxAds : WF_vars(TimeoutFires(i))


\* ------------------------------------------------------------------ claims
\* What the claims speak of.

\* The number a string denotes as a whole (JS Number(string)): NaN unless the
\* entire string is one decimal literal.
NumberOf(s) ==
    LET b  == SkipWhile(s, 1, WhiteSpace)
        sg == IF b <= Len(s) /\ s[b] \in {"-", "+"} THEN b + 1 ELSE b
        ie == SkipWhile(s, sg, Digits)
        fs == IF ie <= Len(s) /\ s[ie] = "." THEN ie + 1 ELSE ie
        fe == IF fs > ie THEN SkipWhile(s, fs, Digits) ELSE ie
        n  == (ie - sg) + (fe - fs)
        v  == IntOf(s, sg, ie) * TicksPerDegree + FracOf(s, fs, fe, TicksPerDegree)
    IN  IF n = 0 \/ fe <= Len(s) THEN NaN
        ELSE Num(IF sg > b /\ s[b] = "-" THEN -v ELSE v)

UserLat == parseFloat(query.latitude).v
UserLng == parseFloat(query.longitude).v

\* The request has been answered with a list of ads.
Answered == phase = "responded" /\ response.status = 200

CatalogIndex(id) == CHOOSE i \in 1..Len(catalog) : catalog[i].id = id
PriorityOf(id) == catalog[CatalogIndex(id)].priority
ResponseIds == { response.ads[k].id : k \in 1..Len(response.ads) }

\* The unrounded distance, in decimeters, from the user of this request to ad.
RawDistance(ad) == calculateDistance(UserLat, UserLng, ad.latitude, ad.longitude)

InvalidQuery ==
    LET lat == NumberOf(query.latitude)
        lng == NumberOf(query.longitude)
    IN  \/ isNaN(lat) \/ isNaN(lng)
        \/ lat.v < -MaxLatitude * TicksPerDegree \/ lat.v > MaxLatitude * TicksPerDegree
        \/ lng.v < -MaxLongitude * TicksPerDegree \/ lng.v > MaxLongitude * TicksPerDegree

\* C1: a query whose latitude or longitude is not a number or is out of range
\* is answered with a validation error, and that request reads no catalog and
\* issues no routing request.
C1_InvalidQueryRejected ==
    (phase \in {"enriching", "responded"} /\ InvalidQuery)
        => /\ phase = "responded"
           /\ response.status = 400
           /\ catalogReads = 0
           /\ calls = <<>>

\* C2: a catalog record is in the result if and only if it is active and its
\* computed (unrounded) distance from the user is at most its radius.
C2_MatchIffWithinRadius ==
    Answered =>
        \A i \in 1..Len(ads) :
            (ads[i].id \in ResponseIds)
                <=> (ads[i].active /\ RawDistance(ads[i]) <= ads[i].radius * DmPerMeter)

\* C3: every entry of a recommendations response and of a chat turn's
\* nearby-business set comes from a catalog record whose active flag is true.
C3_OnlyActiveReturned ==
    /\ \A k \in 1..Len(response.ads) :
          \E i \in 1..Len(catalog) :
              catalog[i].id = response.ads[k].id /\ catalog[i].active
    /\ \A k \in 1..Len(chat.nearbyAds) :
          \E i \in 1..Len(catalog) :
              catalog[i].id = chat.nearbyAds[k].id /\ catalog[i].active

\* C3 witness: a non-empty response while the catalog holds an inactive record
\* that lies within its own radius of the user.
C3_Witness ==
    /\ Answered
    /\ Len(response.ads) >= 1
    /\ \E i \in 1..Len(catalog) :
          /\ ~catalog[i].active
          /\ RawDistance(catalog[i]) <= catalog[i].radius * DmPerMeter

\* C4: the response is ordered by ascending priority and, among equal
\* priorities, by ascending distance.
C4_OrderedByPriorityThenDistance ==
    \A k \in 1..(Len(response.ads) - 1) :
        LET x == response.ads[k]
            y == response.ads[k + 1]
        IN  \/ PriorityOf(x.id) < PriorityOf(y.id)
            \/ PriorityOf(x.id) = PriorityOf(y.id) /\ x.distance <= y.distance

\* C4 witness: two entries of equal priority and different distance whose
\* catalog order is the reverse of their order in the response.
C4_Witness ==
    /\ Answered
    /\ \E k \in 1..(Len(response.ads) - 1) :
          LET x == response.ads[k]
              y == response.ads[k + 1]
          IN  /\ PriorityOf(x.id) = PriorityOf(y.id)
              /\ x.distance < y.distance
              /\ CatalogIndex(y.id) < CatalogIndex(x.id)

\* C5: two matching records of equal priority and equal rounded distance
\* appear in the response in their catalog order.
C5_TiesKeepCatalogOrder ==
    \A j, k \in 1..Len(response.ads) :
        (/\ j < k
         /\ PriorityOf(response.ads[j].id) = PriorityOf(response.ads[k].id)
         /\ response.ads[j].distance = response.ads[k].distance)
            => CatalogIndex(response.ads[j].id) < CatalogIndex(response.ads[k].id)

\* C5 witness: a response with two entries of equal priority and equal rounded
\* distance that lie at different sites.
C5_Witness ==
    /\ Answered
    /\ \E j, k \in 1..Len(response.ads) :
          /\ j < k
          /\ PriorityOf(response.ads[j].id) = PriorityOf(response.ads[k].id)
          /\ response.ads[j].distance = response.ads[k].distance
          /\ response.ads[j].latitude # response.ads[k].latitude


\* C6: enrichment changes neither the count nor the order of the candidates:
\* the response lists exactly the ranked candidates, in ranked order, with id
\* and distance unchanged, whatever the routing outcomes and completion order.
C6_EnrichmentKeepsRanking ==
    Answered =>
        /\ Len(response.ads) = Len(ranked)
        /\ response.total = Len(ranked)
        /\ \A i \in 1..Len(ranked) :
              /\ response.ads[i].id = ranked[i].id
              /\ response.ads[i].distance = ranked[i].distance

\* C6 witness: two candidates whose calls ended in the reverse of ranked order
\* and with different outcomes.
C6_Witness ==
    /\ Answered
    /\ Len(response.ads) = 2
    /\ settled = <<2, 1>>
    /\ response.ads[1].duration # response.ads[2].duration

\* The call got a success response that holds a usable route.
Success(c) ==
    /\ c.via = "response"
    /\ c.headers.status \in 200..299
    /\ c.headers.json
    /\ c.body.parses
    /\ c.body.code = "Ok"
    /\ c.body.hasRoutes
    /\ Len(c.body.routes) > 0

\* C7: routing timeouts are isolated per candidate: every candidate is in the
\* response, one whose call timed out has duration null, and one whose call
\* succeeded carries the (rounded) duration of its own route.
C7_TimeoutsIsolated ==
    Answered =>
        /\ Len(response.ads) = Len(calls)
        /\ \A i \in 1..Len(calls) :
              /\ response.ads[i].id = ranked[i].id
              /\ calls[i].via = "timeout" => response.ads[i].duration = Null
              /\ (Success(calls[i]) /\ calls[i].body.routes[1].t = "num") =>
                    response.ads[i].duration = Num(MathRound(calls[i].body.routes[1].v))

\* C7 witness: of two candidates the first timed out and the second got a route.
C7_Witness ==
    /\ Answered
    /\ Len(response.ads) = 2
    /\ calls[1].via = "timeout"
    /\ Success(calls[2])
    /\ response.ads[1].duration = Null
    /\ response.ads[2].duration = Num(123)

\* C8: a duration is set only for a success response that holds at least one
\* route; a timeout, a non-success status (whatever the body), a non-JSON or
\* malformed response, and a response without usable route each leave null.
C8_FailureKindsLeaveNull ==
    Answered =>
        \A i \in 1..Len(calls) :
            response.ads[i].duration # Null => Success(calls[i])

\* C9: every request with at least one match eventually sends its response,
\* even when the routing service hangs at any stage of a call.
C9_EventuallyResponds == (phase = "enriching") ~> (phase = "responded")

\* C10: every candidate's routing request has been started when the handler
\* awaits the first response: no request waits for another call to end.
C10_AllIssuedBeforeAwait ==
    phase = "enriching" =>
        /\ Len(calls) = Len(ranked)
        /\ \A i \in 1..Len(calls) : calls[i].stage # "notStarted"

\* C10 witness: two routing requests in flight at once, neither answered.
C10_Witness ==
    /\ phase = "enriching"
    /\ Len(calls) = 2
    /\ \A i \in 1..Len(calls) : calls[i].stage = "fetching" /\ calls[i].timer


\* The message of the response that lists no ads (app.ts:179-183).
NoAdsMessage == "No ads available in your area"

\* C11: when the catalog store cannot be read or parsed, a request with a
\* valid query is answered with a success response that holds the empty list,
\* total 0 and the explanatory message; it gets no error response, and no
\* routing request is made.
C11_UnreadableCatalogIsNoMatch ==
    (~readable /\ phase \notin {"idle", "chat"} /\ ~InvalidQuery)
        => /\ phase = "responded"
           /\ response = [status |-> 200, error |-> "", ads |-> <<>>,
                          total |-> 0, message |-> NoAdsMessage]
           /\ calls = <<>>

\* C11 witness: such a request has been answered after one (failed) read of a
\* store whose records would have matched.
C11_Witness ==
    /\ ~readable
    /\ Answered
    /\ ~InvalidQuery
    /\ catalogReads = 1
    /\ \E i \in 1..Len(catalog) :
          catalog[i].active /\ RawDistance(catalog[i]) <= catalog[i].radius * DmPerMeter


\* The context block that stands for "no nearby businesses"
\* (chatHandler.ts:56).
Sentinel == "No nearby businesses available."

\* The chat turn has passed the key check and the location name.
ChatPastLocating == phase = "chat" /\ chat.stage \in {"generating", "responded"}
                        /\ chat.thrown # KeyError

\* C12: on the chat path a catalog that cannot be read, with a user location
\* supplied, counts as zero nearby businesses: the context block is the
\* sentinel, the text-generation call is still made, and the turn does not
\* end in an error response because of the read.
C12_ChatAbsorbsUnreadableCatalog ==
    (~readable /\ ChatPastLocating /\ chat.userLocation # <<>>)
        => /\ chat.adsContext = Sentinel
           /\ chat.generateCalls = 1
           /\ chat.thrown # ReadError


\* The user location of the chat turn is a coordinate outside the range.
ChatLocationInvalid ==
    /\ chat.userLocation # <<>>
    /\ outOfRange(chat.userLocation[1], chat.userLocation[2])

\* C13: the chat path validates the user coordinate before it filters: a
\* location outside the latitude or longitude range is rejected with a
\* validation error, and no nearby-business set is computed from it.
C13_ChatRejectsInvalidLocation ==
    (ChatPastLocating /\ ChatLocationInvalid /\ chat.thrown # ReadError)
        => /\ chat.stage = "responded"
           /\ chat.reply.status = 400
           /\ chat.nearbyAds = <<>>
           /\ chat.generateCalls = 0


\* The record, as read by this request, is active and the user lies within
\* its radius.
Covers(ad) == ad.active /\ RawDistance(ad) <= ad.radius * DmPerMeter

\* C14: when no active record covers the user, the response is the empty
\* list with total 0 and the explanatory message; when at least one record
\* matches, the list is non-empty and total is its length.
C14_EmptyIffNoCover ==
    Answered =>
        IF \E i \in 1..Len(ads) : Covers(ads[i])
        THEN /\ Len(response.ads) > 0
             /\ response.total = Len(response.ads)
        ELSE /\ response.ads = <<>>
             /\ response.total = 0
             /\ response.message = NoAdsMessage


\* The unrounded distance, in decimeters, from the user of this chat turn.
ChatRaw(ad) ==
    calculateDistance(chat.userLocation[1], chat.userLocation[2],
                      ad.latitude, ad.longitude)

\* The record is active and within the ceiling of the chat path.
ChatEligible(ad) == ad.active /\ ChatRaw(ad) <= maxDistance * DmPerMeter

NearbyIds == { chat.nearbyAds[k].id : k \in 1..Len(chat.nearbyAds) }

\* C15: the nearby-business set of a chat turn is the top five by proximity:
\* it has at most five entries, in ascending order of distance whatever their
\* priority, and no active record within the ceiling that was left out is
\* strictly closer than one that is in the set.
C15_NearestFive ==
    /\ Len(chat.nearbyAds) <= TopN
    /\ \A k \in 1..(Len(chat.nearbyAds) - 1) :
          ChatRaw(chat.nearbyAds[k]) <= ChatRaw(chat.nearbyAds[k + 1])
    /\ \A i \in 1..Len(catalog), k \in 1..Len(chat.nearbyAds) :
          (ChatEligible(catalog[i]) /\ catalog[i].id \notin NearbyIds)
              => ChatRaw(catalog[i]) >= ChatRaw(chat.nearbyAds[k])

\* C15 witness: a full set of five with a sixth eligible record left out, the
\* first entry strictly closer than the last, later in the catalog than the
\* second, and of less urgent priority than it.
C15_Witness ==
    /\ ChatPastLocating
    /\ Len(chat.nearbyAds) = TopN
    /\ \E i \in 1..Len(catalog) :
          ChatEligible(catalog[i]) /\ catalog[i].id \notin NearbyIds
    /\ ChatRaw(chat.nearbyAds[1]) < ChatRaw(chat.nearbyAds[TopN])
    /\ CatalogIndex(chat.nearbyAds[1].id) > CatalogIndex(chat.nearbyAds[2].id)
    /\ chat.nearbyAds[1].priority > chat.nearbyAds[2].priority


\* The nearby-business set of this chat turn has been computed from a user
\* location.
NearbyComputed ==
    /\ ChatPastLocating
    /\ chat.thrown # ReadError
    /\ chat.userLocation # <<>>

\* C16: the chat path ignores the radius of a record and uses the fixed
\* ceiling of 20000 m: a record is eligible for the nearby-business set if and
\* only if it is active and at most 20000 m from the user.
C16_FixedCeilingNotRadius ==
    NearbyComputed =>
        \A i \in 1..Len(catalog) :
            /\ catalog[i].id \in NearbyIds => ChatEligible(catalog[i])
            /\ ChatEligible(catalog[i]) =>
                  catalog[i].id \in NearbyIds \/ Len(chat.nearbyAds) = TopN

\* C16 witness: the set holds a record whose own radius does not reach the
\* user, and lacks an active record whose radius does but which is farther
\* than the ceiling.
C16_Witness ==
    /\ NearbyComputed
    /\ \E i \in 1..Len(catalog) :
          /\ catalog[i].id \in NearbyIds
          /\ ChatRaw(catalog[i]) > catalog[i].radius * DmPerMeter
    /\ \E j \in 1..Len(catalog) :
          /\ catalog[j].id \notin NearbyIds
          /\ catalog[j].active
          /\ ChatRaw(catalog[j]) <= catalog[j].radius * DmPerMeter
          /\ ChatRaw(catalog[j]) > maxDistance * DmPerMeter


\* The context block of this chat turn has been formatted.
Formatted == ChatPastLocating /\ chat.thrown # ReadError

\* C17: formatting an empty nearby-business set gives the sentinel text,
\* never the empty string, and formatting a non-empty set never gives the
\* sentinel.
C17_SentinelIffEmpty ==
    Formatted =>
        /\ chat.adsContext # ""
        /\ chat.adsContext = Sentinel <=> chat.nearbyAds = <<>>

\* C17 witness: the sentinel was formatted for a user with a location, all of
\* whose active records lie beyond the ceiling.
C17_Witness ==
    /\ Formatted
    /\ chat.userLocation # <<>>
    /\ \E i \in 1..Len(catalog) : catalog[i].active
    /\ chat.nearbyAds = <<>>
    /\ chat.adsContext = Sentinel


\* The polite fallback text (chatHandler.ts:264).
Fallback == "I'm sorry, I'm having trouble right now. Please try again in a moment."

\* The turn has been answered after the text generation failed: its key is
\* not configured, or the call was rejected.
GenerationFailed ==
    /\ phase = "chat"
    /\ chat.stage = "responded"
    /\ chat.thrown \notin {"", ReadError}

\* C18: when the text generation fails or is not configured, the chat turn is
\* answered with the polite fallback as its response text, and no field of
\* the response body holds the raw error of the failed call.
C18_FallbackHidesRawError ==
    GenerationFailed =>
        /\ chat.reply.response = Fallback
        /\ \A f \in {"error", "response", "details"} : chat.reply[f] # chat.thrown


\* C19: in every recommendations response the distance of each entry is a
\* non-negative integer and its duration is null or a non-negative integer,
\* whatever the routing service puts in the duration of a route: nothing, a
\* string that is no numeral, or a negative number.
C19_DistanceAndDurationNonNegative ==
    Answered =>
        \A k \in 1..Len(response.ads) :
            /\ response.ads[k].distance \in Nat
            /\ \/ response.ads[k].duration = Null
               \/ /\ response.ads[k].duration.t = "num"
                  /\ response.ads[k].duration.v \in Nat


\* C20: location tracking is active only after the user has enabled it: a
\* geolocation watch or position request exists only if the user has asked
\* for tracking since the page loaded, and once the user has stopped tracking
\* no watch remains registered.
C20_TrackingOnlyWhenEnabled ==
    /\ (page.watches # {} \/ page.requests > 0) => page.enabled
    /\ page.stopped => page.watches = {}


\* The request has passed validation and read the catalog.
PastValidation == phase \in {"enriching", "responded"} /\ catalogReads = 1

C22_RankedByUnroundedDistance ==
    Answered =>
        \A j, k \in 1..Len(response.ads) :
            (/\ j < k
             /\ PriorityOf(response.ads[j].id) = PriorityOf(response.ads[k].id))
                => RawDistance(response.ads[j]) <= RawDistance(response.ads[k])


\* The match list computed from the one read of this request.
MatchesOfRead == matchingAds(ads, UserLat, UserLng)

\* C23: a request observes one catalog snapshot: it reads the catalog exactly
\* once, and when the catalog changes while its routing calls are in flight,
\* the records of the response, their order, ids, locations and distances are
\* still those derived from that one read.
C23_OneCatalogSnapshot ==
    Answered =>
        /\ catalogReads = 1
        /\ Len(response.ads) = Len(MatchesOfRead)
        /\ \A k \in 1..Len(MatchesOfRead) :
              /\ response.ads[k].id = MatchesOfRead[k].id
              /\ response.ads[k].latitude = MatchesOfRead[k].latitude
              /\ response.ads[k].longitude = MatchesOfRead[k].longitude
              /\ response.ads[k].distance = MatchesOfRead[k].distance

\* C23 witness: a response with two entries, sent after the catalog was
\* rewritten into one whose match list differs from that of the read.
C23_Witness ==
    /\ Answered
    /\ Len(response.ads) = 2
    /\ catalog # ads
    /\ matchingAds(catalog, UserLat, UserLng) # MatchesOfRead


\* The lines of a text: the pieces between its line feeds.
Lines(text) ==
    LET feeds == { i \in 1..Len(text) : SubSeq(text, i, i) = "\n" }
        n == Cardinality(feeds)
        feed(k) == CHOOSE i \in feeds : Cardinality({ j \in feeds : j < i }) = k - 1
        first(k) == IF k = 1 THEN 1 ELSE feed(k - 1) + 1
        last(k) == IF k = n + 1 THEN Len(text) ELSE feed(k) - 1
    IN  [k \in 1..(n + 1) |-> SubSeq(text, first(k), last(k))]

\* A number of tenths written with one decimal.
OneDecimal(tenths) == ToString(tenths \div 10) \o "." \o ToString(tenths % 10)

\* The distance of a record from the user of the chat turn, in kilometers and
\* in miles (1609.34 m), to one decimal.
KmText(ad) == OneDecimal((ChatRaw(ad) + 500) \div 1000)
MiText(ad) == OneDecimal((ChatRaw(ad) * 100 + 80467) \div 160934)

\* C24: the context block of n >= 1 nearby businesses has exactly n entries
\* in the order of the set; entry k has the index k, the name, the description
\* and the distance of the k-th business on one line, followed by a line
\* 'Website:' with its URL; n is the nearbyBusinesses count of the response.
C24_ContextBlockEntries ==
    (Formatted /\ Len(chat.nearbyAds) >= 1) =>
        LET n == Len(chat.nearbyAds)
            lines == Lines(chat.adsContext)
        IN  /\ Len(lines) = 2 * n
            /\ \A k \in 1..n :
                  LET ad == chat.nearbyAds[k]
                  IN  /\ lines[2 * k - 1] =
                            ToString(k) \o ". " \o businessName(ad) \o " - "
                              \o description(ad) \o " (" \o MiText(ad) \o " mi / "
                              \o KmText(ad) \o " km away)"
                      /\ lines[2 * k] = "   Website: " \o websiteUrl(ad)
            /\ chat.reply.status = 200 => chat.reply.nearbyBusinesses = n

\* C24 witness: a chat turn answered with a block of five entries, one of
\* them for a business more than a kilometer away.
C24_Witness ==
    /\ Formatted
    /\ chat.reply.status = 200
    /\ Len(chat.nearbyAds) = TopN
    /\ chat.reply.nearbyBusinesses = TopN
    /\ \E k \in 1..TopN : ChatRaw(chat.nearbyAds[k]) > 1000 * DmPerMeter


\* The routing requests that this request has issued, by their position.
IssuedCalls == { i \in 1..Len(calls) : calls[i].stage # "notStarted" }

\* C25: a request issues exactly one routing request per record of its ranked
\* match list, from the user to that record, and none for any other record:
\* none for an inactive record, none for a record whose radius does not cover
\* the user, none when the match list is empty or the query was rejected.
C25_OneRoutingRequestPerMatch ==
    /\ phase \in {"enriching", "responded"} =>
          /\ IssuedCalls = 1..Len(ranked)
          /\ \A i \in 1..Len(ranked) :
                /\ calls[i].url.to = <<ranked[i].longitude, ranked[i].latitude>>
                /\ calls[i].url.from = <<UserLng, UserLat>>
                /\ Covers(ranked[i])
    /\ response.status = 400 => calls = <<>>


\* C26: in the page, whenever ads is non-empty the carousel's index is within
\* the list, 0 <= currentAdIndex < ads.length, in every state, also between
\* the arrival of a shorter list and the reset of the index.
C26_AdIndexInRange ==
    Len(page.recs.ads) > 0 =>
        /\ 0 <= page.recs.currentAdIndex
        /\ page.recs.currentAdIndex < Len(page.recs.ads)

\* Every fetch of the hook has settled.
AllSettled == \A i \in 1..Len(page.recs.fetches) : page.recs.fetches[i].settled

\* C27: the ads follow the latest location: once every fetch has settled, in
\* whatever order, ads is what the fetch for the most recent location
\* delivered, and isLoading is false only when no fetch is outstanding.
C27_AdsFollowLatestLocation ==
    /\ (AllSettled /\ Len(page.recs.fetches) > 0) =>
          LET latest == page.recs.fetches[Len(page.recs.fetches)]
          IN  /\ latest.location = page.location
              /\ page.recs.ads = latest.result
    /\ ~page.recs.isLoading => AllSettled


\* The props that the map was last rendered with call for a route.
RouteWanted ==
    /\ page.map.showRoute
    /\ page.map.userLocation # <<>>
    /\ page.map.endLocation # <<>>

\* C28: the route on the map corresponds to the latest inputs: there is at
\* most one route layer and one destination marker, they are for the most
\* recent userLocation and endLocation, and there is none when showRoute is
\* false or there is no endLocation.
C28_RouteForLatestInputs ==
    /\ Cardinality(page.map.layers) <= 1
    /\ Cardinality(page.map.markers) <= 1
    /\ \A l \in page.map.layers :
          l.from = page.map.userLocation /\ l.to = page.map.endLocation
    /\ \A k \in page.map.markers : k.at = page.map.endLocation
    /\ ~RouteWanted => page.map.layers = {} /\ page.map.markers = {}

\* The messages of the chat alternate, beginning with the assistant's, and
\* the last one is the user's exactly while a request is outstanding.
Alternating ==
    LET m == page.chatbot.messages
    IN  /\ \A k \in 1..Len(m) :
              m[k].role = IF k % 2 = 1 THEN "assistant" ELSE "user"
        /\ (Len(m) > 0 /\ m[Len(m)].role = "user") <=> page.chatbot.requests # {}

\* C29: the chat has at most one request outstanding at a time; the list of
\* messages only grows; every message of the user is followed by exactly one
\* message of the assistant before another can be sent; isLoading is true
\* exactly while the request is outstanding, and false after it.
C29_OneChatRequestAtATime ==
    /\ [](/\ Cardinality(page.chatbot.requests) <= 1
          /\ Alternating
          /\ page.chatbot.isLoading <=> page.chatbot.requests # {})
    /\ [][ /\ Len(page'.chatbot.messages) >= Len(page.chatbot.messages)
           /\ SubSeq(page'.chatbot.messages, 1, Len(page.chatbot.messages))
                 = page.chatbot.messages ]_vars

\* Two messages have been sent and answered, one by the backend and one by
\* the catch block of the widget.
C29_Witness ==
    /\ Len(page.chatbot.messages) = 2 * MaxSends + 1
    /\ ~page.chatbot.isLoading
    /\ page.chatbot.requests = {}
    /\ \E k \in 1..Len(page.chatbot.messages) :
          page.chatbot.messages[k].content = ConnectionTrouble
    /\ \E k \in 1..Len(page.chatbot.messages) :
          page.chatbot.messages[k].content \in ChatResponses

\* A step in which a watch reports an error.
WatchFailure == \E w \in WatchSlots : WatchFails(w)

\* C30: a watch failure sets the location error only if no location has been
\* obtained yet: once a position has been delivered, a later watch error
\* leaves error and isTracking as they were.
C30_WatchErrorOnlyBeforeFirstFix ==
    [][ (WatchFailure /\ page.location # <<>>) =>
            /\ page'.error = page.error
            /\ page'.isTracking = page.isTracking ]_vars

====
